---- MODULE Spec2Model ----
(***************************************************************************)
(* Model of qoqo_calculator's CalculatorFloat (src/src/calculator_float.rs) *)
(*                                                                         *)
(* A text is a sequence of one-character strings.                          *)
(*                                                                         *)
(* An f64 is modelled by a decimal [neg, m, e] of value (-1)^neg * m*10^e  *)
(* (m without trailing zeros; zero is m = 0, e = 0, and keeps its sign).   *)
(* The record denotes the f64 nearest to that decimal, so that parsing a   *)
(* literal and the shortest "{:e}" rendering are computed on the digits.   *)
(* Arithmetic is decimal arithmetic carried to MDigits significant digits. *)
(* A Float/Float operation whose operands or result are not exactly the    *)
(* f64 operands and result (ExactAdd, ExactMul, ExactDiv) is outside the   *)
(* model: the operation that would store such a result is not taken.       *)
(* Comparisons against the tolerances only need the sign and the order of  *)
(* magnitude of the difference, which the decimal difference gives.        *)
(***************************************************************************)
EXTENDS Integers, Sequences, FiniteSets, TLC

(***************************************************************************)
(* Bounds of the model                                                     *)
(***************************************************************************)
MaxLen == 11      \* longest text an operation may build
MaxMant == 6      \* largest mantissa an operation may compute
MaxExp == 1       \* largest decimal exponent an operation may compute

(***************************************************************************)
(* Decimal digits and characters                                           *)
(***************************************************************************)
MDigits == 9      \* significant decimal digits carried by the arithmetic
AbsorbGap == 18   \* x + y = x in f64 once |y| < 10^-17 * |x|

DigitChars == <<"0", "1", "2", "3", "4", "5", "6", "7", "8", "9">>

DigitChar(d) == DigitChars[d + 1]

IsDigit(c) == \E d \in 0..9 : DigitChars[d + 1] = c

DigitVal(c) == CHOOSE d \in 0..9 : DigitChars[d + 1] = c

Min(a, b) == IF a <= b THEN a ELSE b

Max(a, b) == IF a >= b THEN a ELSE b

Abs(i) == IF i < 0 THEN -i ELSE i

RECURSIVE Pow10(_)
Pow10(k) == IF k <= 0 THEN 1 ELSE 10 * Pow10(k - 1)

RECURSIVE Pow5(_)
Pow5(k) == IF k <= 0 THEN 1 ELSE 5 * Pow5(k - 1)

\* number of decimal digits of a natural (0 has one digit)
RECURSIVE NDigits(_)
NDigits(n) == IF n < 10 THEN 1 ELSE 1 + NDigits(n \div 10)

\* decimal digits of a natural as characters, most significant first
RECURSIVE NatText(_)
NatText(n) ==
    IF n < 10 THEN <<DigitChar(n)>>
    ELSE NatText(n \div 10) \o <<DigitChar(n % 10)>>

IntText(i) == IF i < 0 THEN <<"-">> \o NatText(-i) ELSE NatText(i)

(***************************************************************************)
(* f64 values                                                              *)
(***************************************************************************)
RECURSIVE StripZeros(_, _)
StripZeros(m, e) ==
    IF m # 0 /\ m % 10 = 0 THEN StripZeros(m \div 10, e + 1)
    ELSE [m |-> m, e |-> e]

\* the f64 of sign neg and magnitude m * 10^e
MkF(neg, m, e) ==
    IF m = 0 THEN [neg |-> neg, m |-> 0, e |-> 0]
    ELSE LET n == StripZeros(m, e) IN [neg |-> neg, m |-> n.m, e |-> n.e]

FromInt(i) == MkF(i < 0, Abs(i), 0)

FZero == MkF(FALSE, 0, 0)

FOne == MkF(FALSE, 1, 0)

FIsZero(x) == x.m = 0

\* exponent of the scientific notation: 10^SciExp <= |x| < 10^(SciExp + 1)
SciExp(x) == x.e + NDigits(x.m) - 1

\* |x| in units of 10^u, digits below the unit dropped
ToUnits(x, u) ==
    IF x.m = 0 THEN 0
    ELSE IF x.e >= u THEN x.m * Pow10(x.e - u)
    ELSE IF u - x.e > MDigits THEN 0
    ELSE x.m \div Pow10(u - x.e)

\* the unit in which the larger of x and y has MDigits digits
Unit(x, y) ==
    IF FIsZero(x) THEN SciExp(y) - (MDigits - 1)
    ELSE IF FIsZero(y) THEN SciExp(x) - (MDigits - 1)
    ELSE Max(SciExp(x), SciExp(y)) - (MDigits - 1)

Signed(x, u) == IF x.neg THEN -ToUnits(x, u) ELSE ToUnits(x, u)

\* f64 `==`, `<`, `<=`, `>`: the operands are compared in the unit of the
\* larger one, which holds all of its digits (0.0 == -0.0)
FEq(x, y) == Signed(x, Unit(x, y)) = Signed(y, Unit(x, y))

FLt(x, y) == Signed(x, Unit(x, y)) < Signed(y, Unit(x, y))

FLe(x, y) == FLt(x, y) \/ FEq(x, y)

FGt(x, y) == FLt(y, x)

\* f64::abs and unary minus
FAbs(x) == [x EXCEPT !.neg = FALSE]

FNeg(x) == [x EXCEPT !.neg = ~x.neg]

\* x is a binary fraction, held exactly by an f64
Dyadic(x) ==
    \/ x.m = 0
    \/ x.e >= 0 /\ x.e <= MDigits
    \/ x.e < 0 /\ x.e >= -MDigits /\ x.m % Pow5(-x.e) = 0

\* |y| is below half an ulp of x
Absorbs(x, y) ==
    ~FIsZero(x) /\ ~FIsZero(y) /\ SciExp(x) - SciExp(y) >= AbsorbGap

\* f64 `x + y`
FAdd(x, y) ==
    IF FIsZero(x) /\ FIsZero(y) THEN MkF(x.neg /\ y.neg, 0, 0)
    ELSE IF FIsZero(y) \/ Absorbs(x, y) THEN x
    ELSE IF FIsZero(x) \/ Absorbs(y, x) THEN y
    ELSE LET u == Max(Min(x.e, y.e), Unit(x, y))
             s == Signed(x, u) + Signed(y, u)
         IN  MkF(s < 0, Abs(s), u)

\* f64 `x - y`
FSub(x, y) == FAdd(x, FNeg(y))

\* the decimal sum is the f64 sum
ExactAdd(x, y) ==
    \/ FIsZero(x) \/ FIsZero(y)
    \/ Absorbs(x, y) \/ Absorbs(y, x)
    \/ Dyadic(x) /\ Dyadic(y) /\ Min(x.e, y.e) >= Unit(x, y)

\* f64 `x * y`
FMul(x, y) == MkF(x.neg # y.neg, x.m * y.m, x.e + y.e)

\* the decimal product is the f64 product
ExactMul(x, y) ==
    \/ FIsZero(x) \/ FIsZero(y)
    \/ x.m = 1 /\ x.e = 0
    \/ y.m = 1 /\ y.e = 0
    \/ Dyadic(x) /\ Dyadic(y) /\ NDigits(x.m) + NDigits(y.m) <= MDigits

\* the decimal places needed to write x / y, or -1 when there are too many
DivShift(x, y) ==
    IF \E k \in 0..MDigits :
           /\ NDigits(x.m) + k <= MDigits
           /\ (x.m * Pow10(k)) % y.m = 0
    THEN CHOOSE k \in 0..MDigits :
           /\ NDigits(x.m) + k <= MDigits
           /\ (x.m * Pow10(k)) % y.m = 0
           /\ \A j \in 0..(k - 1) : (x.m * Pow10(j)) % y.m # 0
    ELSE -1

\* f64 `x / y` for y # 0
FDiv(x, y) ==
    LET k == DivShift(x, y) IN
    MkF(x.neg # y.neg, (x.m * Pow10(k)) \div y.m, x.e - y.e - k)

\* the decimal quotient is the f64 quotient
ExactDiv(x, y) ==
    /\ ~FIsZero(y)
    /\ \/ FIsZero(x)
       \/ y.m = 1 /\ y.e = 0
       \/ Dyadic(x) /\ Dyadic(y) /\ DivShift(x, y) >= 0

(***************************************************************************)
(* Text and f64:  format!("{:e}", x)  and  f64::from_str                   *)
(***************************************************************************)
\* format!("{:e}", x): shortest digits, one digit before the point
FmtE(x) ==
    LET ds == NatText(x.m) IN
    (IF x.neg THEN <<"-">> ELSE <<>>)
    \o <<ds[1]>>
    \o (IF Len(ds) > 1 THEN <<".">> \o SubSeq(ds, 2, Len(ds)) ELSE <<>>)
    \o <<"e">>
    \o IntText(SciExp(x))

\* first position at or after i that holds no digit
RECURSIVE SkipDigits(_, _)
SkipDigits(s, i) ==
    IF i <= Len(s) /\ IsDigit(s[i]) THEN SkipDigits(s, i + 1) ELSE i

\* value of the digits s[i..j-1]
RECURSIVE DigitsVal(_, _, _)
DigitsVal(s, i, j) ==
    IF j <= i THEN 0
    ELSE 10 * DigitsVal(s, i, j - 1) + DigitVal(s[j - 1])

\* f64::from_str: [sign] digits [. digits] [(e|E) [sign] digits], with a
\* digit before or after the point; anything else is an error.
\* The positions: p0 first digit, p1 end of the integer digits, p2 first
\* fraction digit, p3 end of the fraction digits, p4 first exponent digit,
\* p5 end of the exponent digits
ParseEnd(s, p0, p1, p2, p3, p4, p5) ==
    LET hasExp == p3 <= Len(s)
        eNeg   == p4 = p3 + 2 /\ s[p3 + 1] = "-"
        ex     == IF hasExp THEN DigitsVal(s, p4, p5) ELSE 0
    IN  IF /\ (p1 - p0) + (p3 - p2) >= 1
           /\ hasExp => p5 > p4 /\ p5 = Len(s) + 1
        THEN [ok |-> TRUE,
              val |-> MkF(p0 = 2 /\ s[1] = "-",
                          DigitsVal(s, p0, p1) * Pow10(p3 - p2)
                              + DigitsVal(s, p2, p3),
                          (IF eNeg THEN -ex ELSE ex) - (p3 - p2))]
        ELSE [ok |-> FALSE, val |-> FZero]

ParseExp(s, p0, p1, p2, p3, p4) ==
    ParseEnd(s, p0, p1, p2, p3, p4, SkipDigits(s, p4))

ParseFrac(s, p0, p1, p2, p3) ==
    IF p3 <= Len(s) /\ s[p3] \notin {"e", "E"}
    THEN [ok |-> FALSE, val |-> FZero]
    ELSE ParseExp(s, p0, p1, p2, p3,
                  IF p3 + 1 <= Len(s) /\ s[p3 + 1] \in {"+", "-"}
                  THEN p3 + 2 ELSE p3 + 1)

ParseInt(s, p0, p1) ==
    IF p1 <= Len(s) /\ s[p1] = "."
    THEN ParseFrac(s, p0, p1, p1 + 1, SkipDigits(s, p1 + 1))
    ELSE ParseFrac(s, p0, p1, p1, p1)

ParseSign(s, p0) == ParseInt(s, p0, SkipDigits(s, p0))

ParseF64(s) ==
    ParseSign(s, IF Len(s) >= 1 /\ s[1] \in {"+", "-"} THEN 2 ELSE 1)

(***************************************************************************)
(* CalculatorFloat                                                         *)
(***************************************************************************)
\* static ATOL: f64 = f64::EPSILON, 2^-52 = 2.220446049250313e-16 cut to
\* MDigits digits: no modelled value has a magnitude from this one to 2^-52
ATOL == MkF(FALSE, 222044604, -24)

\* static RTOL: f64 = 1e-8
RTOL == MkF(FALSE, 1, -8)

\* enum CalculatorFloat { Float(f64), Str(String) }
Float(x) == [tag |-> "Float", f |-> x]

Str(t) == [tag |-> "Str", s |-> t]

\* an operand `other: T` of a generic operation, before conversion
OfCF(c) == [ty |-> "CalculatorFloat", c |-> c]

OfF64(x) == [ty |-> "f64", x |-> x]

OfI32(i) == [ty |-> "i32", i |-> i]

OfString(t) == [ty |-> "String", t |-> t]

OfStringRef(t) == [ty |-> "&String", t |-> t]

OfStr(t) == [ty |-> "&str", t |-> t]

\* impl From<i32> for CalculatorFloat
FromI32(item) == Float(FromInt(item))

\* impl From<f64> for CalculatorFloat
FromF64(item) == Float(item)

\* impl From<String> for CalculatorFloat
FromString(item) ==
    LET f == ParseF64(item) IN
    IF ~f.ok THEN Str(item) ELSE Float(f.val)

\* From<&String> as its doc comment has it for From<String> ("Returns
\* CalculatorFloat::Str"): the text is stored without being parsed
FromStringRef_NoParse(item) == Str(item)

\* impl From<&String> for CalculatorFloat
FromStringRef(item) ==
    LET f == ParseF64(item) IN
    IF ~f.ok THEN Str(item) ELSE Float(f.val)

\* From<&str> storing the text without parsing it
FromStr_NoParse(item) == Str(item)

\* impl From<&str> for CalculatorFloat
FromStr(item) ==
    LET f == ParseF64(item) IN
    IF ~f.ok THEN Str(item) ELSE Float(f.val)

\* impl From<&CalculatorFloat> for CalculatorFloat (and From<T> for T)
FromCF(item) == item

\* CalculatorFloat::from(other)
From(other) ==
    CASE other.ty = "CalculatorFloat" -> FromCF(other.c)
      [] other.ty = "f64"             -> FromF64(other.x)
      [] other.ty = "i32"             -> FromI32(other.i)
      [] other.ty = "String"          -> FromString(other.t)
      [] other.ty = "&String"         -> FromStringRef(other.t)
      [] other.ty = "&str"            -> FromStr(other.t)

\* outcome of a call: a returned value, a panic, or an Err(..)
Ok(v) == [st |-> "ok", v |-> v]

Panic == [st |-> "panic"]

Err(val) == [st |-> "err", val |-> val]

\* format!("({} <op> {})", l, r)
Wrap(l, op, r) == <<"(">> \o l \o <<" ", op, " ">> \o r \o <<")">>

\* format!("(-{})", y)
WrapNeg(y) == <<"(", "-">> \o y \o <<")">>

\* try_from that parses the text of a Str before giving up
TryFrom_Reparse(value) ==
    IF value.tag = "Float" THEN Ok(value.f)
    ELSE IF ParseF64(value.s).ok THEN Ok(ParseF64(value.s).val)
    ELSE Err([kind |-> "FloatSymbolicNotConvertable", val |-> value.s])

\* impl TryFrom<CalculatorFloat> for f64
TryFrom(value) ==
    IF value.tag = "Float" THEN Ok(value.f)
    ELSE Err([kind |-> "FloatSymbolicNotConvertable", val |-> value.s])

\* impl fmt::Display for CalculatorFloat
Display(self) == IF self.tag = "Float" THEN FmtE(self.f) ELSE self.s

\* isclose with the tolerance scaled by self instead of other
IsClose_ScaledBySelf(self, other) ==
    LET other_from == From(other) IN
    IF self.tag = "Float"
    THEN IF other_from.tag = "Float"
         THEN FLe(FAbs(FSub(self.f, other_from.f)),
                  FAdd(ATOL, FMul(RTOL, FAbs(self.f))))
         ELSE FmtE(self.f) = other_from.s
    ELSE IF other_from.tag = "Float"
         THEN self.s = FmtE(other_from.f)
         ELSE self.s = other_from.s

\* CalculatorFloat::isclose
IsClose(self, other) ==
    LET other_from == From(other) IN
    IF self.tag = "Float"
    THEN IF other_from.tag = "Float"
         THEN FLe(FAbs(FSub(self.f, other_from.f)),
                  FAdd(ATOL, FMul(RTOL, FAbs(other_from.f))))
         ELSE FmtE(self.f) = other_from.s
    ELSE IF other_from.tag = "Float"
         THEN self.s = FmtE(other_from.f)
         ELSE self.s = other_from.s

\* impl ops::Add<T> for CalculatorFloat
Add(self, other) ==
    LET other_from == From(other) IN
    IF self.tag = "Float"
    THEN IF other_from.tag = "Float"
         THEN Ok(Float(FAdd(self.f, other_from.f)))
         ELSE IF ~FEq(self.f, FZero)
              THEN Ok(Str(Wrap(FmtE(self.f), "+", other_from.s)))
              ELSE Ok(Str(other_from.s))
    ELSE IF other_from.tag = "Float"
         THEN IF ~FEq(other_from.f, FZero)
              THEN Ok(Str(Wrap(self.s, "+", FmtE(other_from.f))))
              ELSE Ok(Str(self.s))
         ELSE Ok(Str(Wrap(self.s, "+", other_from.s)))

\* `+=` that keeps the text of a zero left operand instead of the right one
AddAssign_ZeroKept(self, other) ==
    LET other_from == From(other) IN
    IF self.tag = "Float"
    THEN IF other_from.tag = "Float"
         THEN Ok(Float(FAdd(self.f, other_from.f)))
         ELSE IF FGt(FAbs(FSub(self.f, FZero)), ATOL)
              THEN Ok(Str(Wrap(FmtE(self.f), "+", other_from.s)))
              ELSE Ok(Str(FmtE(self.f)))
    ELSE IF other_from.tag = "Float"
         THEN IF ~FEq(other_from.f, FZero)
              THEN Ok(Str(Wrap(self.s, "+", FmtE(other_from.f))))
              ELSE Ok(Str(self.s))
         ELSE Ok(Str(Wrap(self.s, "+", other_from.s)))

\* impl ops::AddAssign<T> for CalculatorFloat: the value left in *self
AddAssign(self, other) ==
    LET other_from == From(other) IN
    IF self.tag = "Float"
    THEN IF other_from.tag = "Float"
         THEN Ok(Float(FAdd(self.f, other_from.f)))
         ELSE IF FGt(FAbs(FSub(self.f, FZero)), ATOL)
              THEN Ok(Str(Wrap(FmtE(self.f), "+", other_from.s)))
              ELSE Ok(Str(other_from.s))
    ELSE IF other_from.tag = "Float"
         THEN IF ~FEq(other_from.f, FZero)
              THEN Ok(Str(Wrap(self.s, "+", FmtE(other_from.f))))
              ELSE Ok(Str(self.s))
         ELSE Ok(Str(Wrap(self.s, "+", other_from.s)))

\* impl ops::Add<T> for &CalculatorFloat
AddRef(self, other) ==
    LET other_from == From(other) IN
    IF self.tag = "Float"
    THEN IF other_from.tag = "Float"
         THEN Ok(Float(FAdd(self.f, other_from.f)))
         ELSE IF FGt(FAbs(FSub(self.f, FZero)), ATOL)
              THEN Ok(Str(Wrap(FmtE(self.f), "+", other_from.s)))
              ELSE Ok(Str(other_from.s))
    ELSE IF other_from.tag = "Float"
         THEN IF ~FEq(other_from.f, FZero)
              THEN Ok(Str(Wrap(self.s, "+", FmtE(other_from.f))))
              ELSE Ok(Str(self.s))
         ELSE Ok(Str(Wrap(self.s, "+", other_from.s)))

\* `/` that looks for a zero divisor only when the dividend is a Float
Div_ZeroCheckFloatOnly(self, other) ==
    LET other_from == From(other) IN
    IF self.tag = "Float"
    THEN IF other_from.tag = "Float"
         THEN IF FEq(other_from.f, FZero)
              THEN Panic
              ELSE Ok(Float(FDiv(self.f, other_from.f)))
         ELSE IF FEq(self.f, FZero)
              THEN Ok(Float(FZero))
              ELSE Ok(Str(Wrap(FmtE(self.f), "/", other_from.s)))
    ELSE IF other_from.tag = "Float"
         THEN IF FLt(FAbs(FSub(other_from.f, FOne)), ATOL)
              THEN Ok(Str(self.s))
              ELSE Ok(Str(Wrap(self.s, "/", FmtE(other_from.f))))
         ELSE Ok(Str(Wrap(self.s, "/", other_from.s)))

\* impl ops::Div<T> for CalculatorFloat
Div(self, other) ==
    LET other_from == From(other) IN
    IF self.tag = "Float"
    THEN IF other_from.tag = "Float"
         THEN IF FEq(other_from.f, FZero)
              THEN Panic
              ELSE Ok(Float(FDiv(self.f, other_from.f)))
         ELSE IF FEq(self.f, FZero)
              THEN Ok(Float(FZero))
              ELSE Ok(Str(Wrap(FmtE(self.f), "/", other_from.s)))
    ELSE IF other_from.tag = "Float"
         THEN IF FEq(other_from.f, FZero)
              THEN Panic
              ELSE IF FLt(FAbs(FSub(other_from.f, FOne)), ATOL)
              THEN Ok(Str(self.s))
              ELSE Ok(Str(Wrap(self.s, "/", FmtE(other_from.f))))
         ELSE Ok(Str(Wrap(self.s, "/", other_from.s)))

\* impl ops::DivAssign<T> for CalculatorFloat: the value left in *self
DivAssign(self, other) ==
    LET other_from == From(other) IN
    IF self.tag = "Float"
    THEN IF other_from.tag = "Float"
         THEN IF FEq(other_from.f, FZero)
              THEN Panic
              ELSE Ok(Float(FDiv(self.f, other_from.f)))
         ELSE IF FLt(FAbs(FSub(self.f, FZero)), ATOL)
              THEN Ok(Float(FZero))
              ELSE Ok(Str(Wrap(FmtE(self.f), "/", other_from.s)))
    ELSE IF other_from.tag = "Float"
         THEN IF FEq(other_from.f, FZero)
              THEN Panic
              ELSE IF FLt(FAbs(FSub(other_from.f, FOne)), ATOL)
              THEN Ok(Str(self.s))
              ELSE Ok(Str(Wrap(self.s, "/", FmtE(other_from.f))))
         ELSE Ok(Str(Wrap(self.s, "/", other_from.s)))

\* `*` that applies the identity of one to the text "1" as well
Mul_TextIdentity(self, other) ==
    LET other_from == From(other) IN
    IF self.tag = "Float"
    THEN IF other_from.tag = "Float"
         THEN Ok(Float(FMul(self.f, other_from.f)))
         ELSE IF FEq(self.f, FZero)
              THEN Ok(Float(FZero))
              ELSE IF FLt(FAbs(FSub(self.f, FOne)), ATOL)
              THEN Ok(Str(other_from.s))
              ELSE Ok(Str(Wrap(FmtE(self.f), "*", other_from.s)))
    ELSE IF other_from.tag = "Float"
         THEN IF FEq(other_from.f, FZero)
              THEN Ok(Float(FZero))
              ELSE IF FLt(FAbs(FSub(other_from.f, FOne)), ATOL)
              THEN Ok(Str(self.s))
              ELSE Ok(Str(Wrap(self.s, "*", FmtE(other_from.f))))
         ELSE IF other_from.s = <<"1">>
              THEN Ok(Str(self.s))
              ELSE Ok(Str(Wrap(self.s, "*", other_from.s)))

\* impl ops::Mul<T> for CalculatorFloat
Mul(self, other) ==
    LET other_from == From(other) IN
    IF self.tag = "Float"
    THEN IF other_from.tag = "Float"
         THEN Ok(Float(FMul(self.f, other_from.f)))
         ELSE IF FEq(self.f, FZero)
              THEN Ok(Float(FZero))
              ELSE IF FLt(FAbs(FSub(self.f, FOne)), ATOL)
              THEN Ok(Str(other_from.s))
              ELSE Ok(Str(Wrap(FmtE(self.f), "*", other_from.s)))
    ELSE IF other_from.tag = "Float"
         THEN IF FEq(other_from.f, FZero)
              THEN Ok(Float(FZero))
              ELSE IF FLt(FAbs(FSub(other_from.f, FOne)), ATOL)
              THEN Ok(Str(self.s))
              ELSE Ok(Str(Wrap(self.s, "*", FmtE(other_from.f))))
         ELSE Ok(Str(Wrap(self.s, "*", other_from.s)))

\* impl ops::MulAssign<T> for CalculatorFloat: the value left in *self
MulAssign(self, other) ==
    LET other_from == From(other) IN
    IF self.tag = "Float"
    THEN IF other_from.tag = "Float"
         THEN Ok(Float(FMul(self.f, other_from.f)))
         ELSE IF FLt(FAbs(FSub(self.f, FZero)), ATOL)
              THEN Ok(Float(FZero))
              ELSE IF FLt(FAbs(FSub(self.f, FOne)), ATOL)
              THEN Ok(Str(other_from.s))
              ELSE Ok(Str(Wrap(FmtE(self.f), "*", other_from.s)))
    ELSE IF other_from.tag = "Float"
         THEN IF FEq(other_from.f, FZero)
              THEN Ok(Float(FZero))
              ELSE IF FLt(FAbs(FSub(other_from.f, FOne)), ATOL)
              THEN Ok(Str(self.s))
              ELSE Ok(Str(Wrap(self.s, "*", FmtE(other_from.f))))
         ELSE Ok(Str(Wrap(self.s, "*", other_from.s)))

\* `-` that drops a zero left operand as `+` does, without the negation
Sub_ZeroLeftDropped(self, other) ==
    LET other_from == From(other) IN
    IF self.tag = "Float"
    THEN IF other_from.tag = "Float"
         THEN Ok(Float(FSub(self.f, other_from.f)))
         ELSE IF ~FEq(self.f, FZero)
              THEN Ok(Str(Wrap(FmtE(self.f), "-", other_from.s)))
              ELSE Ok(Str(other_from.s))
    ELSE IF other_from.tag = "Float"
         THEN IF ~FEq(other_from.f, FZero)
              THEN Ok(Str(Wrap(self.s, "-", FmtE(other_from.f))))
              ELSE Ok(Str(self.s))
         ELSE Ok(Str(Wrap(self.s, "-", other_from.s)))

\* impl ops::Sub<T> for CalculatorFloat
Sub(self, other) ==
    LET other_from == From(other) IN
    IF self.tag = "Float"
    THEN IF other_from.tag = "Float"
         THEN Ok(Float(FSub(self.f, other_from.f)))
         ELSE IF ~FEq(self.f, FZero)
              THEN Ok(Str(Wrap(FmtE(self.f), "-", other_from.s)))
              ELSE Ok(Str(WrapNeg(other_from.s)))
    ELSE IF other_from.tag = "Float"
         THEN IF ~FEq(other_from.f, FZero)
              THEN Ok(Str(Wrap(self.s, "-", FmtE(other_from.f))))
              ELSE Ok(Str(self.s))
         ELSE Ok(Str(Wrap(self.s, "-", other_from.s)))

\* impl ops::SubAssign<T> for CalculatorFloat: the value left in *self
SubAssign(self, other) ==
    LET other_from == From(other) IN
    IF self.tag = "Float"
    THEN IF other_from.tag = "Float"
         THEN Ok(Float(FSub(self.f, other_from.f)))
         ELSE IF FGt(FAbs(FSub(self.f, FZero)), ATOL)
              THEN Ok(Str(Wrap(FmtE(self.f), "-", other_from.s)))
              ELSE Ok(Str(WrapNeg(other_from.s)))
    ELSE IF other_from.tag = "Float"
         THEN IF ~FEq(other_from.f, FZero)
              THEN Ok(Str(Wrap(self.s, "-", FmtE(other_from.f))))
              ELSE Ok(Str(self.s))
         ELSE Ok(Str(Wrap(self.s, "-", other_from.s)))

\* impl ops::Neg for CalculatorFloat
Neg(self) ==
    IF self.tag = "Float" THEN Ok(Float(FNeg(self.f)))
    ELSE Ok(Str(WrapNeg(self.s)))

(***************************************************************************)
(* f64 functions.  sqrt, abs, signum and recip are exact operations of the *)
(* float unit and are computed; exp, sin, cos, acos, atan2 and powf come   *)
(* from the platform's math library and their result is kept as the        *)
(* function applied to its arguments.  A result that is infinite, not a    *)
(* number or not computed is a value of the f64 type like any other, but   *)
(* no holder of the model takes it.                                        *)
(***************************************************************************)
Inf(neg) == [inf |-> TRUE, neg |-> neg]

NaN == [nan |-> TRUE]

\* the f64 that the math library returns for fn(args)
LibM(fn, args) == [fn |-> fn, args |-> args]

\* a finite f64 written as a decimal
Finite(x) == DOMAIN x = {"neg", "m", "e"}

\* integer square root of a square below 10^4, else -1
ISqrt(n) ==
    IF n < 10000 /\ \E r \in 0..99 : r * r = n
    THEN CHOOSE r \in 0..99 : r * r = n
    ELSE -1

\* mantissa of x at an even exponent
EvenMant(x) == IF x.e % 2 = 0 THEN x.m ELSE x.m * 10

\* f64::sqrt: correctly rounded, so exact on the squares the model writes
FSqrt(x) ==
    IF FIsZero(x) THEN x
    ELSE IF x.neg THEN NaN
    ELSE IF Dyadic(x) /\ x.m < 1000 /\ ISqrt(EvenMant(x)) >= 0
    THEN MkF(FALSE, ISqrt(EvenMant(x)), (x.e - (x.e % 2)) \div 2)
    ELSE LibM("sqrt", <<x>>)

\* f64::signum: 1.0 for +0.0 and above, -1.0 for -0.0 and below
FSignum(x) == MkF(x.neg, 1, 0)

\* f64::recip: 1.0 / x
FRecip(x) ==
    IF FIsZero(x) THEN Inf(x.neg)
    ELSE IF ExactDiv(FOne, x) THEN FDiv(FOne, x)
    ELSE LibM("recip", <<x>>)

(***************************************************************************)
(* impl CalculatorFloat                                                    *)
(***************************************************************************)
\* format!("name({})", y)
Func(name, y) == name \o <<"(">> \o y \o <<")">>

\* format!("atan2({}, {})", x, y)
FuncAtan2(x, y) ==
    <<"a", "t", "a", "n", "2", "(">> \o x \o <<",", " ">> \o y \o <<")">>

\* impl From<CalculatorFloat> for String with the f64 written by `{:E}`
ToText_UpperExp(value) ==
    IF value.tag = "Float"
    THEN [i \in 1..Len(FmtE(value.f)) |->
             IF FmtE(value.f)[i] = "e" THEN "E" ELSE FmtE(value.f)[i]]
    ELSE value.s

\* impl From<CalculatorFloat> for String: format!("{}", value)
ToText(value) == Display(value)

\* CalculatorFloat::sqrt
Sqrt(self) ==
    IF self.tag = "Float" THEN Ok(Float(FSqrt(self.f)))
    ELSE Ok(Str(Func(<<"s", "q", "r", "t">>, self.s)))

\* atan2 that simplifies atan2(0, y) to 0
Atan2_ZeroShortCircuit(self, other) ==
    LET other_from == From(other) IN
    IF self.tag = "Float" /\ FIsZero(self.f) THEN Ok(Float(FZero))
    ELSE IF other_from.tag = "Float"
    THEN IF self.tag = "Float"
         THEN Ok(Float(LibM("atan2", <<self.f, other_from.f>>)))
         ELSE Ok(Str(FuncAtan2(self.s, FmtE(other_from.f))))
    ELSE IF self.tag = "Float"
         THEN Ok(Str(FuncAtan2(FmtE(self.f), other_from.s)))
         ELSE Ok(Str(FuncAtan2(self.s, other_from.s)))

\* CalculatorFloat::atan2
Atan2(self, other) ==
    LET other_from == From(other) IN
    IF self.tag = "Float"
    THEN IF other_from.tag = "Float"
         THEN Ok(Float(LibM("atan2", <<self.f, other_from.f>>)))
         ELSE Ok(Str(FuncAtan2(FmtE(self.f), other_from.s)))
    ELSE IF other_from.tag = "Float"
         THEN Ok(Str(FuncAtan2(self.s, FmtE(other_from.f))))
         ELSE Ok(Str(FuncAtan2(self.s, other_from.s)))

\* CalculatorFloat::powf
Powf(self, other) ==
    LET other_from == From(other) IN
    IF self.tag = "Float"
    THEN IF other_from.tag = "Float"
         THEN Ok(Float(LibM("powf", <<self.f, other_from.f>>)))
         ELSE Ok(Str(Wrap(FmtE(self.f), "^", other_from.s)))
    ELSE IF other_from.tag = "Float"
         THEN Ok(Str(Wrap(self.s, "^", FmtE(other_from.f))))
         ELSE Ok(Str(Wrap(self.s, "^", other_from.s)))

\* CalculatorFloat::exp
Exp(self) ==
    IF self.tag = "Float" THEN Ok(Float(LibM("exp", <<self.f>>)))
    ELSE Ok(Str(Func(<<"e", "x", "p">>, self.s)))

\* CalculatorFloat::sin
Sin(self) ==
    IF self.tag = "Float" THEN Ok(Float(LibM("sin", <<self.f>>)))
    ELSE Ok(Str(Func(<<"s", "i", "n">>, self.s)))

\* CalculatorFloat::cos
Cos(self) ==
    IF self.tag = "Float" THEN Ok(Float(LibM("cos", <<self.f>>)))
    ELSE Ok(Str(Func(<<"c", "o", "s">>, self.s)))

\* CalculatorFloat::acos
Acos(self) ==
    IF self.tag = "Float" THEN Ok(Float(LibM("acos", <<self.f>>)))
    ELSE Ok(Str(Func(<<"a", "c", "o", "s">>, self.s)))

\* CalculatorFloat::abs
AbsCF(self) ==
    IF self.tag = "Float" THEN Ok(Float(FAbs(self.f)))
    ELSE Ok(Str(Func(<<"a", "b", "s">>, self.s)))

\* CalculatorFloat::signum
Signum(self) ==
    IF self.tag = "Float" THEN Ok(Float(FSignum(self.f)))
    ELSE Ok(Str(Func(<<"s", "i", "g", "n">>, self.s)))

\* recip that refuses a zero as the division operators do
Recip_ZeroAborts(self) ==
    IF self.tag = "Float"
    THEN IF FEq(self.f, FZero) THEN Panic ELSE Ok(Float(FRecip(self.f)))
    ELSE Ok(Str(<<"(", "1", " ", "/", " ">> \o self.s \o <<")">>))

\* CalculatorFloat::recip
Recip(self) ==
    IF self.tag = "Float" THEN Ok(Float(FRecip(self.f)))
    ELSE Ok(Str(<<"(", "1", " ", "/", " ">> \o self.s \o <<")">>))

(***************************************************************************)
(* Serialization: one token of the serde data model                        *)
(***************************************************************************)
\* impl From<u32> for CalculatorFloat
FromU32(item) == Float(FromInt(item))

\* tokens a Serializer receives and a Deserializer hands to the visitor
F64Tok(x) == [tok |-> "f64", x |-> x]

StrTok(t) == [tok |-> "str", s |-> t]

\* a Serialize that writes every value as its text
Serialize_Rendered(self) ==
    IF self.tag = "Float" THEN StrTok(FmtE(self.f)) ELSE StrTok(self.s)

\* impl Serialize for CalculatorFloat
Serialize(self) ==
    IF self.tag = "Float" THEN F64Tok(self.f) ELSE StrTok(self.s)

\* TemporaryVisitor::expecting
Expecting == "float or string"

\* a visit method TemporaryVisitor leaves to the Visitor trait:
\* Err(Error::invalid_type(unexpected, &self))
InvalidType(unexpected) ==
    Err([kind |-> "invalid_type", unexpected |-> unexpected,
         expected |-> Expecting])

\* TemporaryVisitor::visit_str
VisitStr(value) == Ok(From(OfStr(value)))

\* TemporaryVisitor::visit_f64
VisitF64(value) == Ok(From(OfF64(value)))

\* TemporaryVisitor::visit_i32
VisitI32(value) == Ok(From(OfI32(value)))

\* TemporaryVisitor::visit_u32
VisitU32(value) == Ok(FromU32(value))

\* a visitor without visit_i32 and visit_u32: integers fall to the trait
Deserialize_FloatOrStringOnly(token) ==
    CASE token.tok = "str"  -> VisitStr(token.s)
      [] token.tok = "char" -> VisitStr(<<token.c>>)
      [] token.tok = "f64"  -> VisitF64(token.x)
      [] token.tok = "f32"  -> VisitF64(token.x)
      [] OTHER              -> InvalidType(token.tok)

\* impl Deserialize for CalculatorFloat: deserialize_any(TemporaryVisitor)
\* calls the visit method of the token's type.  The methods the visitor does
\* not define are the Visitor trait's: visit_char forwards to visit_str with
\* the one-character text, visit_f32 to visit_f64 with the widened value,
\* the narrower integers to visit_i64 / visit_u64, and every other method
\* returns invalid_type
Deserialize(token) ==
    CASE token.tok = "str"  -> VisitStr(token.s)
      [] token.tok = "char" -> VisitStr(<<token.c>>)
      [] token.tok = "f64"  -> VisitF64(token.x)
      [] token.tok = "f32"  -> VisitF64(token.x)
      [] token.tok = "i32"  -> VisitI32(token.i)
      [] token.tok = "u32"  -> VisitU32(token.u)
      [] OTHER              -> InvalidType(token.tok)

(***************************************************************************)
(* Inputs                                                                  *)
(***************************************************************************)
Tiny == MkF(FALSE, 1, -18)

\* the shortest decimal above f64::EPSILON that MDigits digits can write
AboveEps == MkF(FALSE, 222044605, -24)

\* f64 arguments of every operation
F64Inputs == { FZero, MkF(TRUE, 0, 0), FOne, FromInt(2), Tiny }

\* further f64 arguments of from() and isclose()
F64More ==
    { MkF(FALSE, 5, -1), FNeg(Tiny), AboveEps, MkF(FALSE, 2, 8),
      MkF(FALSE, 200000001, 0), MkF(FALSE, 200000003, 0) }

\* i32 arguments
I32Inputs == { 0, 3, -3 }

\* text arguments of every operation
TextInputs ==
    { <<"x">>, <<"3", "t">>, <<"2", ".", "0">>, <<"0">>, <<"1">>,
      <<"1", "e", "-", "1", "8">> }

\* further text arguments of from() and isclose()
MoreTexts ==
    { <<>>, <<".", "5">>, <<"5", ".">>, <<"1", "e">>,
      <<"+", "2">>, <<"-", "0">>, <<"1", "E", "+", "1">>, <<"-", "x">>,
      <<"3", ".", "0">>, <<"0", "0", ".", "5", "0">>, <<"2", "e", "0", "x">>,
      <<"2", "e", "0">> }

\* values built variant by variant: CalculatorFloat::Str(..), ::Float(..)
CFInputs ==
    { Str(<<"x">>), Str(<<"0">>), Str(<<"1">>), Float(Tiny) }

Operands ==
    {OfF64(x) : x \in F64Inputs} \cup {OfI32(i) : i \in I32Inputs}
    \cup {OfStr(t) : t \in TextInputs}
    \cup {OfString(<<"3", "t">>), OfString(<<"2", ".", "0">>),
          OfStringRef(<<"3", "t">>), OfStringRef(<<"0">>)}
    \cup {OfCF(c) : c \in CFInputs}

\* arguments of isclose()
CloseInputs ==
    Operands \cup {OfF64(x) : x \in F64More}
    \cup {OfCF(Str(<<"2", "e", "0">>))}

\* arguments of from()
Sources ==
    CloseInputs \cup {OfStr(t) : t \in MoreTexts}
    \cup {OfString(t) : t \in MoreTexts} \cup {OfStringRef(t) : t \in MoreTexts}

\* arguments of atan2() and powf()
PowInputs ==
    { OfF64(FZero), OfF64(FOne), OfI32(3), OfStr(<<"x">>),
      OfStr(<<"2", ".", "0">>), OfCF(Str(<<"1">>)) }

\* token types of the serde data model the visitor has no method for
OtherTokens == { "bool", "i8", "i64", "u64", "unit", "seq" }

\* tokens a Deserializer may hand to deserialize_any
TokenInputs ==
    {F64Tok(x) : x \in F64Inputs}
    \cup {StrTok(t) : t \in TextInputs \cup {<<>>, <<"2", "e", "0">>}}
    \cup {[tok |-> "i32", i |-> i] : i \in I32Inputs}
    \cup {[tok |-> "u32", u |-> u] : u \in {0, 7}}
    \cup {[tok |-> "f32", x |-> MkF(FALSE, 5, -1)]}
    \cup {[tok |-> "char", c |-> c] : c \in {"x", "1"}}
    \cup {[tok |-> k] : k \in OtherTokens}

(***************************************************************************)
(* What the model covers                                                   *)
(***************************************************************************)
InRange(x) ==
    /\ x.m <= MaxMant
    /\ Abs(x.e) <= MaxExp \/ FAbs(x) \in {FAbs(y) : y \in F64Inputs \cup F64More}

\* a value an operation may produce
InModel(v) == IF v.tag = "Float" THEN InRange(v.f) ELSE Len(v.s) <= MaxLen

\* the outcome r of an operation is covered
Covered(r) == r.st = "ok" => InModel(r.v)

\* a Float/Float operation whose decimal result is the f64 result
BothFloat(self, other) == self.tag = "Float" /\ From(other).tag = "Float"

ExactSum(self, other) ==
    BothFloat(self, other) => ExactAdd(self.f, From(other).f)

ExactProduct(self, other) ==
    BothFloat(self, other) => ExactMul(self.f, From(other).f)

ExactQuotient(self, other) ==
    BothFloat(self, other) =>
        FIsZero(From(other).f) \/ ExactDiv(self.f, From(other).f)

(***************************************************************************)
(* State: one holder `a` and the call made on it, until its result is      *)
(* dropped                                                                 *)
(***************************************************************************)
VARIABLES a, last

vars == <<a, last>>

Init ==
    \E src \in Sources :
        /\ a = From(src)
        /\ last = [op |-> "from", other |-> src, out |-> Ok(From(src))]

Idle == [op |-> "idle"]

\* let a = CalculatorFloat::from(src)
Construct ==
    \E src \in Sources :
        /\ last = Idle
        /\ a' = From(src)
        /\ last' = [op |-> "from", other |-> src, out |-> Ok(From(src))]

\* a call that leaves the holder alone:  a.clone() <op> other
Call(name, self, other, r) ==
    /\ last = Idle
    /\ Covered(r)
    /\ last' = [op |-> name, self |-> self, other |-> other, out |-> r]
    /\ UNCHANGED a

\* *self = { .. } that stores a text before the block has tested the divisor
Left_StoredFirst(self, r) ==
    IF r.st = "ok" THEN r.v
    ELSE Str(Wrap(Display(self), "/", <<"0", "e", "0">>))

\* *self = { if .. { panic!(..) } else { value } }: the block is evaluated
\* before the store, so a panic leaves *self as it was
Left(self, r) == IF r.st = "ok" THEN r.v ELSE self

\* a call on `&mut a`
Update(name, self, other, r) ==
    /\ last = Idle
    /\ Covered(r)
    /\ last' = [op |-> name, self |-> self, other |-> other, out |-> r]
    /\ a' = Left(self, r)

DoAdd ==
    \E other \in Operands :
        ExactSum(a, other) /\ Call("add", a, other, Add(a, other))

DoAddRef ==
    \E other \in Operands :
        ExactSum(a, other) /\ Call("add_ref", a, other, AddRef(a, other))

DoAddAssign ==
    \E other \in Operands :
        ExactSum(a, other)
        /\ Update("add_assign", a, other, AddAssign(a, other))

DoSub ==
    \E other \in Operands :
        ExactSum(a, other) /\ Call("sub", a, other, Sub(a, other))

DoSubAssign ==
    \E other \in Operands :
        ExactSum(a, other)
        /\ Update("sub_assign", a, other, SubAssign(a, other))

DoMul ==
    \E other \in Operands :
        ExactProduct(a, other) /\ Call("mul", a, other, Mul(a, other))

DoMulAssign ==
    \E other \in Operands :
        ExactProduct(a, other)
        /\ Update("mul_assign", a, other, MulAssign(a, other))

DoDiv ==
    \E other \in Operands :
        ExactQuotient(a, other) /\ Call("div", a, other, Div(a, other))

DoDivAssign ==
    \E other \in Operands :
        ExactQuotient(a, other)
        /\ Update("div_assign", a, other, DivAssign(a, other))

DoNeg ==
    /\ last = Idle
    /\ Covered(Neg(a))
    /\ last' = [op |-> "neg", self |-> a, out |-> Neg(a)]
    /\ UNCHANGED a

\* f64::try_from(a.clone())
DoTryFrom ==
    /\ last = Idle
    /\ last' = [op |-> "try_from", self |-> a, out |-> TryFrom(a)]
    /\ UNCHANGED a

\* a.isclose(other)
DoIsClose ==
    \E other \in CloseInputs :
        /\ last = Idle
        /\ last' = [op |-> "isclose", self |-> a, other |-> other,
                    out |-> [st |-> "ok", b |-> IsClose(a, other)]]
        /\ UNCHANGED a

\* a.sqrt()
DoSqrt ==
    /\ last = Idle
    /\ last' = [op |-> "sqrt", self |-> a, out |-> Sqrt(a)]
    /\ UNCHANGED a

\* a.exp()
DoExp ==
    /\ last = Idle
    /\ last' = [op |-> "exp", self |-> a, out |-> Exp(a)]
    /\ UNCHANGED a

\* a.sin()
DoSin ==
    /\ last = Idle
    /\ last' = [op |-> "sin", self |-> a, out |-> Sin(a)]
    /\ UNCHANGED a

\* a.cos()
DoCos ==
    /\ last = Idle
    /\ last' = [op |-> "cos", self |-> a, out |-> Cos(a)]
    /\ UNCHANGED a

\* a.acos()
DoAcos ==
    /\ last = Idle
    /\ last' = [op |-> "acos", self |-> a, out |-> Acos(a)]
    /\ UNCHANGED a

\* a.abs()
DoAbs ==
    /\ last = Idle
    /\ last' = [op |-> "abs", self |-> a, out |-> AbsCF(a)]
    /\ UNCHANGED a

\* a.signum()
DoSignum ==
    /\ last = Idle
    /\ last' = [op |-> "signum", self |-> a, out |-> Signum(a)]
    /\ UNCHANGED a

\* a.recip()
DoRecip ==
    /\ last = Idle
    /\ last' = [op |-> "recip", self |-> a, out |-> Recip(a)]
    /\ UNCHANGED a

\* a.atan2(other)
DoAtan2 ==
    \E other \in PowInputs :
        /\ last = Idle
        /\ last' = [op |-> "atan2", self |-> a, other |-> other,
                    out |-> Atan2(a, other)]
        /\ UNCHANGED a

\* a.powf(other)
DoPowf ==
    \E other \in PowInputs :
        /\ last = Idle
        /\ last' = [op |-> "powf", self |-> a, other |-> other,
                    out |-> Powf(a, other)]
        /\ UNCHANGED a

\* String::from(a.clone())
DoToText ==
    /\ last = Idle
    /\ last' = [op |-> "to_text", self |-> a,
                out |-> [st |-> "ok", t |-> ToText(a)]]
    /\ UNCHANGED a

\* the operations that return a CalculatorFloat
Producers ==
    { "add", "add_ref", "sub", "mul", "div", "neg", "sqrt", "exp", "sin",
      "cos", "acos", "abs", "signum", "recip", "atan2", "powf" }

\* a = <the value just returned>
Assign ==
    /\ last.op \in Producers
    /\ last.out.st = "ok"
    /\ last.out.v.tag = "Float" => Finite(last.out.v.f)
    /\ InModel(last.out.v)
    /\ a' = last.out.v
    /\ last' = Idle

\* serializer.serialize_f64 / serialize_str: the token written
DoSerialize ==
    /\ last = Idle
    /\ last' = [op |-> "serialize", self |-> a,
                out |-> [st |-> "ok", token |-> Serialize(a)]]
    /\ UNCHANGED a

\* a = CalculatorFloat::deserialize(..) of the token just written
DoRoundTrip ==
    /\ last.op = "serialize"
    /\ last' = [op |-> "round_trip", self |-> last.self,
                token |-> last.out.token,
                out |-> Deserialize(last.out.token)]
    /\ a' = IF Deserialize(last.out.token).st = "ok"
            THEN Deserialize(last.out.token).v ELSE a

\* a = CalculatorFloat::deserialize(..)?  of a token of any type
DoDeserialize ==
    \E token \in TokenInputs :
        /\ last = Idle
        /\ last' = [op |-> "deserialize", token |-> token,
                    out |-> Deserialize(token)]
        /\ a' = IF Deserialize(token).st = "ok"
                THEN Deserialize(token).v ELSE a

\* the result of the call goes out of scope
Drop ==
    /\ last # Idle
    /\ last' = Idle
    /\ UNCHANGED a

Next ==
    \/ Construct \/ Drop
    \/ DoAdd \/ DoAddRef \/ DoAddAssign
    \/ DoSub \/ DoSubAssign
    \/ DoMul \/ DoMulAssign
    \/ DoDiv \/ DoDivAssign
    \/ DoNeg \/ DoTryFrom \/ DoIsClose
    \/ DoSqrt \/ DoExp \/ DoSin \/ DoCos \/ DoAcos \/ DoAbs \/ DoSignum
    \/ DoRecip \/ DoAtan2 \/ DoPowf \/ DoToText \/ Assign
    \/ DoSerialize \/ DoRoundTrip \/ DoDeserialize

Spec == Init /\ [][Next]_vars

(***************************************************************************)
(* Properties                                                              *)
(***************************************************************************)
InPlaceOps == {"add_assign", "sub_assign", "mul_assign", "div_assign"}

ByValueOps == {"add", "sub", "mul", "div"}

BinaryOps == InPlaceOps \cup ByValueOps \cup {"add_ref"}

\* the by-value operator behind each binary form
ByValue(op, self, other) ==
    CASE op \in {"add", "add_assign", "add_ref"} -> Add(self, other)
      [] op \in {"sub", "sub_assign"}            -> Sub(self, other)
      [] op \in {"mul", "mul_assign"}            -> Mul(self, other)
      [] op \in {"div", "div_assign"}            -> Div(self, other)

\* the operator of each binary form
Apply(op, self, other) ==
    CASE op = "add"        -> Add(self, other)
      [] op = "add_ref"    -> AddRef(self, other)
      [] op = "add_assign" -> AddAssign(self, other)
      [] op = "sub"        -> Sub(self, other)
      [] op = "sub_assign" -> SubAssign(self, other)
      [] op = "mul"        -> Mul(self, other)
      [] op = "mul_assign" -> MulAssign(self, other)
      [] op = "div"        -> Div(self, other)
      [] op = "div_assign" -> DivAssign(self, other)

\* the operator character of each binary form
OpChar(op) ==
    CASE op \in {"add", "add_assign", "add_ref"} -> "+"
      [] op \in {"sub", "sub_assign"}            -> "-"
      [] op \in {"mul", "mul_assign"}            -> "*"
      [] op \in {"div", "div_assign"}            -> "/"

IsBinary == last.op \in BinaryOps

\* the right operand of the last call, converted
Rhs == From(last.other)

\* one operand of the last call is Numeric and the other Symbolic
MixedCall == IsBinary /\ last.self.tag # Rhs.tag

NumericSide == IF last.self.tag = "Float" THEN last.self.f ELSE Rhs.f

SymbolicSide == IF last.self.tag = "Str" THEN last.self.s ELSE Rhs.s

\* "(left <op> right)", the Numeric side in scientific notation
Wrapped == Str(Wrap(Display(last.self), OpChar(last.op), Display(Rhs)))

NearOne(x) == FLt(FAbs(FSub(x, FOne)), ATOL)

\* C1: for +, -, *, / the in-place form leaves in the holder exactly the value
\* the by-value form returns, and aborts exactly when the by-value form aborts;
\* by-reference addition returns exactly the value of by-value addition.
C1_FormsAgree ==
    last.op \in InPlaceOps \cup {"add_ref"} =>
        /\ last.out = ByValue(last.op, last.self, last.other)
        /\ last.op \in InPlaceOps /\ last.out.st = "ok" => a = last.out.v

\* C2: a division (/ or /=) whose right operand is Numeric and exactly zero
\* aborts, whatever the left operand; a division by a Symbolic never aborts.
C2_ZeroDivisorAborts ==
    last.op \in {"div", "div_assign"} =>
        /\ Rhs.tag = "Float" /\ Rhs.f.m = 0 => last.out.st = "panic"
        /\ Rhs.tag = "Str" => last.out.st = "ok"

C2_Witness ==
    /\ last.op = "div_assign"
    /\ last.self.tag = "Str"
    /\ Rhs.tag = "Float" /\ Rhs.f.m = 0
    /\ last.out.st = "panic"

C5_MixedMul ==
    MixedCall /\ last.op \in {"mul", "mul_assign"} =>
        last.out = Ok(IF FIsZero(NumericSide) THEN Float(FZero)
                      ELSE IF NearOne(NumericSide) THEN Str(SymbolicSide)
                      ELSE Wrapped)

C7_MixedDiv ==
    MixedCall /\ last.op \in {"div", "div_assign"} /\ last.out.st = "ok" =>
        last.out.v =
            IF last.self.tag = "Float"
            THEN IF FIsZero(last.self.f) THEN Float(FZero) ELSE Wrapped
            ELSE IF NearOne(Rhs.f) THEN Str(last.self.s) ELSE Wrapped

\* C8: when both operands of +, -, *, / or of their in-place forms are
\* Symbolic, the result is Symbolic "(a op b)" built from the two texts in
\* left-right order, whatever the texts (equal texts, "0", "1").
C8_BothSymbolic ==
    IsBinary /\ last.self.tag = "Str" /\ Rhs.tag = "Str" =>
        last.out = Ok(Str(<<"(">> \o last.self.s
                          \o <<" ", OpChar(last.op), " ">>
                          \o Rhs.s \o <<")">>))

C8_Witness ==
    /\ last.op = "mul_assign"
    /\ last.self = Str(<<"0">>)
    /\ Rhs = Str(<<"0">>)
    /\ a = Str(<<"(", "0", " ", "*", " ", "0", ")">>)

\* C9: a text right operand is converted by the construction rule before the
\* operation dispatches: a text that parses as a float behaves as the Numeric
\* operand of that value (Symbolic("3t") / "2.0" is Symbolic("(3t / 2e0)"),
\* "0" as a divisor aborts), a text that does not parse as the Symbolic
\* operand with that text.
C9_TextOperandConverted ==
    IsBinary /\ last.other.ty \in {"String", "&String", "&str"} =>
        /\ last.out =
              IF ParseF64(last.other.t).ok
              THEN Apply(last.op, last.self, OfF64(ParseF64(last.other.t).val))
              ELSE Apply(last.op, last.self, OfCF(Str(last.other.t)))
        /\ last.op = "div" /\ last.self = Str(<<"3", "t">>)
           /\ last.other.t = <<"2", ".", "0">> =>
               last.out.v
                   = Str(<<"(", "3", "t", " ", "/", " ", "2", "e", "0", ")">>)

C9_Witness ==
    /\ last.op = "div"
    /\ last.self = Str(<<"3", "t">>)
    /\ last.other = OfStr(<<"2", ".", "0">>)
    /\ last.out = Ok(Str(<<"(", "3", "t", " ", "/", " ", "2", "e", "0", ")">>))

\* C10: isclose is |x - y| <= ATOL + RTOL * |y| for two Numerics, the
\* tolerance scaled by the right operand only; equality of the Numeric side's
\* scientific notation with the text for one Numeric and one Symbolic; and
\* equality of the texts for two Symbolics.
C10_IsClose ==
    last.op = "isclose" =>
        last.out.b =
            IF last.self.tag = "Float" /\ Rhs.tag = "Float"
            THEN FLe(FAbs(FSub(last.self.f, Rhs.f)),
                     FAdd(ATOL, FMul(RTOL, FAbs(Rhs.f))))
            ELSE Display(last.self) = Display(Rhs)

\* isclose(0.0, y) holds and isclose(y, 0.0) does not
C10_Witness ==
    /\ last.op = "isclose"
    /\ last.self = Float(FZero)
    /\ Rhs = Float(AboveEps)
    /\ last.out.b
    /\ ~IsClose(Rhs, OfCF(last.self))
\* C11: a value serializes as one native token, f64 for a Numeric and string
\* for a Symbolic; deserializing that token gives back the same Numeric
\* value, and the same Symbolic text when the text does not parse as a float.
C11_RoundTrip ==
    /\ last.op = "serialize" =>
           last.out.token =
               IF last.self.tag = "Float"
               THEN [tok |-> "f64", x |-> last.self.f]
               ELSE [tok |-> "str", s |-> last.self.s]
    /\ last.op = "round_trip"
       /\ (last.self.tag = "Str" => ~ParseF64(last.self.s).ok) =>
           /\ last.out = Ok(last.self)
           /\ a = last.self

C11_Witness ==
    /\ last.op = "round_trip"
    /\ last.self = Str(<<"3", "t">>)
    /\ last.token.tok = "str"
    /\ a = Str(<<"3", "t">>)

\* the value a numeric or text token stands for
TokenValue(token) ==
    CASE token.tok \in {"f64", "f32"} -> Float(token.x)
      [] token.tok = "i32" -> Float(MkF(token.i < 0, Abs(token.i), 0))
      [] token.tok = "u32" -> Float(MkF(FALSE, token.u, 0))
      [] token.tok = "str" ->
            IF ParseF64(token.s).ok THEN Float(ParseF64(token.s).val)
            ELSE Str(token.s)
      [] token.tok = "char" ->
            IF ParseF64(<<token.c>>).ok THEN Float(ParseF64(<<token.c>>).val)
            ELSE Str(<<token.c>>)

Rejected ==
    /\ last.out.st = "err"
    /\ last.out.val.kind = "invalid_type"
    /\ last.out.val.expected = "float or string"
    /\ "v" \notin DOMAIN last.out

\* C12: deserialization accepts exactly a floating-point token, a signed or
\* unsigned 32-bit integer token, or a string token (Numeric for the numeric
\* tokens, the construction rule for a string); a token of any other type is
\* rejected with "expected float or string" and produces no value.
C12_OnlyFloatIntString ==
    last.op = "deserialize" =>
        IF last.token.tok \in {"f64", "f32", "i32", "u32", "str"}
        THEN last.out = Ok(TokenValue(last.token)) /\ a = last.out.v
        ELSE Rejected

\* C12 amended: a char token is accepted too, as the one-character string;
\* the tokens of every other type are rejected.
C12_CharAsString ==
    last.op = "deserialize" =>
        IF last.token.tok \in {"f64", "f32", "i32", "u32", "str", "char"}
        THEN last.out = Ok(TokenValue(last.token)) /\ a = last.out.v
        ELSE Rejected

C12_Witness ==
    /\ last.op = "deserialize"
    /\ last.token = [tok |-> "char", c |-> "x"]
    /\ a = Str(<<"x">>)

\* the operations of a value that the failure modes are counted over
ValueOps ==
    BinaryOps
    \cup { "from", "try_from", "to_text", "isclose", "neg", "recip", "sqrt",
           "exp", "sin", "cos", "acos", "abs", "signum", "powf", "atan2" }

Embedding == BinaryOps \cup {"powf", "atan2"}

\* the expression text built from the renderings of the two operands
Embedded ==
    IF last.op = "atan2"
    THEN <<"a", "t", "a", "n", "2", "(">> \o ToText(last.self)
             \o <<",", " ">> \o ToText(Rhs) \o <<")">>
    ELSE <<"(">> \o ToText(last.self)
             \o <<" ", (IF last.op = "powf" THEN "^" ELSE OpChar(last.op)), " ">>
             \o ToText(Rhs) \o <<")">>

\* C14: to_text of a Numeric is its scientific notation (3.0 gives "3e0") and
\* of a Symbolic its stored text; every expression that +, -, *, /, powf or
\* atan2 builds from two operands embeds exactly these renderings, and
\* isclose of a Numeric and a Symbolic compares exactly these renderings.
C14_CanonicalRendering ==
    /\ last.op = "to_text" =>
           /\ last.out.t = IF last.self.tag = "Float" THEN FmtE(last.self.f)
                           ELSE last.self.s
           /\ last.self = Float(MkF(FALSE, 3, 0)) =>
                  last.out.t = <<"3", "e", "0">>
    /\ last.op \in Embedding /\ last.out.st = "ok"
       /\ last.out.v.tag = "Str"
       /\ Len(last.out.v.s) > 3 + Len(ToText(last.self)) + Len(ToText(Rhs)) =>
           last.out.v.s = Embedded
    /\ last.op \in {"powf", "atan2"}
       /\ (last.self.tag = "Str" \/ Rhs.tag = "Str") =>
           last.out = Ok(Str(Embedded))
    /\ last.op = "isclose" /\ last.self.tag # Rhs.tag =>
           last.out.b = (ToText(last.self) = ToText(Rhs))

C14_Witness ==
    /\ last.op = "to_text"
    /\ last.self = Float(MkF(FALSE, 3, 0))
    /\ last.out.t = <<"3", "e", "0">>

UnaryOps ==
    {"sqrt", "exp", "sin", "cos", "acos", "abs", "signum", "neg", "recip"}

\* the text each unary operation builds around a Symbolic operand
UnaryText(op, s) ==
    CASE op = "sqrt"   -> <<"s", "q", "r", "t", "(">> \o s \o <<")">>
      [] op = "exp"    -> <<"e", "x", "p", "(">> \o s \o <<")">>
      [] op = "sin"    -> <<"s", "i", "n", "(">> \o s \o <<")">>
      [] op = "cos"    -> <<"c", "o", "s", "(">> \o s \o <<")">>
      [] op = "acos"   -> <<"a", "c", "o", "s", "(">> \o s \o <<")">>
      [] op = "abs"    -> <<"a", "b", "s", "(">> \o s \o <<")">>
      [] op = "signum" -> <<"s", "i", "g", "n", "(">> \o s \o <<")">>
      [] op = "neg"    -> <<"(", "-">> \o s \o <<")">>
      [] op = "recip"  -> <<"(", "1", " ", "/", " ">> \o s \o <<")">>

\* r is the value of the float function of op at x
UnaryValue(op, x, r) ==
    CASE op = "abs"    -> r = [x EXCEPT !.neg = FALSE]
      [] op = "neg"    -> r = [x EXCEPT !.neg = ~x.neg]
      [] op = "signum" -> r = [neg |-> x.neg, m |-> 1, e |-> 0]
      [] op = "sqrt"   ->
            IF Finite(r) THEN /\ ~r.neg \/ FIsZero(x)
                              /\ FMul(r, r) = [x EXCEPT !.neg = FALSE]
            ELSE r = NaN <=> x.neg /\ ~FIsZero(x)
      [] op = "recip"  ->
            IF Finite(r) THEN FMul(r, x) = FOne
            ELSE r = Inf(x.neg) <=> FIsZero(x)
      [] OTHER         -> r = [fn |-> op, args |-> <<x>>]

\* C15: sqrt, exp, sin, cos, acos, abs, sign, negation and reciprocal keep
\* the operand's variant: the float function of a Numeric, "func(text)"
\* ("(-text)", "(1 / text)") of a Symbolic; atan2 and powf are Numeric only
\* for two Numerics and else "atan2(a, b)" / "(a ^ b)" with the Numeric side
\* in scientific notation, also when the Numeric operand is zero or one.
C15_PureWrappers ==
    /\ last.op \in UnaryOps =>
           /\ last.out.st = "ok"
           /\ last.out.v.tag = last.self.tag
           /\ last.self.tag = "Str" =>
                  last.out.v.s = UnaryText(last.op, last.self.s)
           /\ last.self.tag = "Float" =>
                  UnaryValue(last.op, last.self.f, last.out.v.f)
    /\ last.op \in {"atan2", "powf"} =>
           IF last.self.tag = "Float" /\ Rhs.tag = "Float"
           THEN last.out = Ok(Float([fn |-> last.op,
                                     args |-> <<last.self.f, Rhs.f>>]))
           ELSE last.out =
                  Ok(Str(IF last.op = "atan2"
                         THEN <<"a", "t", "a", "n", "2", "(">>
                                  \o Display(last.self) \o <<",", " ">>
                                  \o Display(Rhs) \o <<")">>
                         ELSE <<"(">> \o Display(last.self)
                                  \o <<" ", "^", " ">>
                                  \o Display(Rhs) \o <<")">>))

\* no identity of zero: 0.atan2(x) stays an expression
C15_Witness ==
    /\ last.op = "atan2"
    /\ last.self = Float(FZero)
    /\ Rhs = Str(<<"x">>)
    /\ last.out = Ok(Str(<<"a", "t", "a", "n", "2", "(", "0", "e", "0", ",",
                           " ", "x", ")">>))

\* C16: a non-aborting in-place step keeps a Numeric holder Numeric when the
\* right operand is Numeric; keeps a Symbolic holder Symbolic except for *=
\* by a Numeric zero, which leaves Numeric(0.0); and with a Symbolic right
\* operand leaves a Numeric holder Numeric only if the holder is zero and the
\* operator is *= or /=.
C16_VariantStable ==
    last.op \in InPlaceOps /\ last.out.st = "ok" =>
        /\ last.self.tag = "Float" /\ Rhs.tag = "Float" => a.tag = "Float"
        /\ last.self.tag = "Str" =>
               IF last.op = "mul_assign" /\ Rhs.tag = "Float"
                  /\ FIsZero(Rhs.f)
               THEN a = Float(FZero)
               ELSE a.tag = "Str"
        /\ last.self.tag = "Float" /\ Rhs.tag = "Str" /\ a.tag = "Float" =>
               /\ FIsZero(last.self.f)
               /\ last.op \in {"mul_assign", "div_assign"}

\* C17: when a /= b aborts because b is a Numeric zero, a is left exactly as
\* it was before the operation, variant and payload.
C17_AbortLeavesTarget ==
    last.op = "div_assign" /\ last.out.st = "panic" =>
        /\ Rhs.tag = "Float" /\ FIsZero(Rhs.f)
        /\ a = last.self

C17_Witness ==
    /\ last.op = "div_assign"
    /\ last.out.st = "panic"
    /\ last.self = Str(<<"3", "t">>)
    /\ a = Str(<<"3", "t">>)

\* a Symbolic value whose text does not parse as a float, or a Numeric
Unparsed(v) == v.tag = "Str" => ~ParseF64(v.s).ok

\* the operations of C18: arithmetic, negation, reciprocal, transcendental
Builders == BinaryOps \cup UnaryOps \cup {"powf", "atan2"}

\* C18: a Symbolic built from a text has a text that does not parse as a
\* float, and arithmetic, negation, reciprocal and the transcendental
\* operations keep it so: from operands whose texts do not parse, every
\* Symbolic result has a text that does not parse, and constructing from its
\* to_text gives the result back, same variant and text.
C18_TextsStayUnparsed ==
    /\ last.op = "from" /\ last.other.ty \in {"String", "&String", "&str"} =>
           Unparsed(a)
    /\ last.op \in Builders /\ last.out.st = "ok" /\ Unparsed(last.self)
       /\ (last.op \notin UnaryOps => Unparsed(Rhs)) =>
           /\ Unparsed(last.out.v)
           /\ last.out.v.tag = "Str" =>
                  From(OfStr(ToText(last.out.v))) = last.out.v

\* an operation on a text that an earlier operation built
C18_Witness ==
    /\ last.op = "add_assign"
    /\ last.self = Str(<<"(", "-", "x", ")">>)
    /\ Rhs = Str(<<"x">>)
    /\ a = Str(<<"(", "(", "-", "x", ")", " ", "+", " ", "x", ")">>)
    /\ From(OfStr(ToText(a))) = a

====
